---------------------------- MODULE Spec2Model ----------------------------
(***************************************************************************)
(* Funding-rate monitor: the refresh-cache coordinator of src/app.py       *)
(* (get_funding_ranking, _refresh_cache) composed with the collector of    *)
(* src/core/aggregator.py (collect_all), specification Spec; and, each on  *)
(* its own, the ranking builder build_ranking of src/core/aggregator.py    *)
(* (SpecRanking), the OKX adapter fetch_okx_funding of                     *)
(* src/exchanges/okx.py with its sub-tasks (SpecOkx), and the symbol       *)
(* unification of the adapters (SpecUnify).                                *)
(*                                                                         *)
(* Scheduling is asyncio's: one thread, a task runs without interruption   *)
(* from one await that really suspends to the next.  Every action below is *)
(* one such uninterrupted run.  asyncio.Lock.acquire does not suspend when *)
(* the lock is free, so the test REFRESH_LOCK.locked() of app.py:97 and    *)
(* the acquisition of app.py:101 belong to the same run.                   *)
(*                                                                         *)
(* collect_all returns ONE list (aggregator.py:53); _refresh_cache unpacks *)
(* its result into two names (app.py:48).  The unpacking raises ValueError *)
(* unless the list has exactly two elements, and with two elements         *)
(* build_ranking receives a single FundingRateItem and list(items) raises  *)
(* TypeError (aggregator.py:57).  Lines 50-87 of app.py are therefore      *)
(* never executed: every refresh whose collection completes ends in the    *)
(* handler's "except Exception" branch (app.py:117-121).                   *)
(***************************************************************************)
EXTENDS Integers, Sequences, FiniteSets, TLC

VARIABLES
    now,             \* the wall clock read by time.time(), in seconds
    CACHE,           \* app.py:24  the shared snapshot
    HISTORY,         \* app.py:31  per-symbol history
    EXCHANGE_CACHE,  \* aggregator.py:14  per-source last known-good items
    REFRESH_LOCK,    \* app.py:23  TRUE iff the asyncio.Lock is locked
    pc,              \* position of each request task of get_funding_ranking
    started,         \* per task: when its wait_for(_refresh_cache()) began
    cached_rows,     \* per task: the local cached_rows of app.py:103
    results,         \* per task: what gather holds for each source so far
    last_start,      \* observation: when the last pipeline execution began
    last_collect,    \* observation: the last completed collect_all call: what
                     \* each source returned (<<>> if it raised) and the list
                     \* collect_all returned
    last_outcome,    \* observation: how the last refresh attempt ended
    last_resp        \* observation: the response returned by the step just
                     \* taken (NoResp when that step returned none)

\* The ranking builder of aggregator.py:56-131, run on its own (as
\* main_cli.py:21-22 runs it, outside the coordinator).
VARIABLES
    rank_input,      \* the items handed to build_ranking
    rank_rows,       \* the rows build_ranking returned for rank_input
    rank_built       \* TRUE iff rank_rows is the result for rank_input

coordVars == <<now, CACHE, HISTORY, EXCHANGE_CACHE, REFRESH_LOCK, pc, started,
               cached_rows, results, last_start, last_collect, last_outcome,
               last_resp>>

\* One call of the OKX adapter, fetch_okx_funding of exchanges/okx.py, which
\* fetches one funding rate per instrument in sub-tasks.
VARIABLES
    okx_pc,          \* position of the call of fetch_okx_funding
    okx_listing,     \* how the instrument listing of okx.py:158-189 ended
    okx_now,         \* time since asyncio.wait of okx.py:193 began, in units
                     \* of 0.5 s
    tasks,           \* the sub-tasks of okx.py:192, one per instrument
    sem,             \* okx.py:191  the free permits of the semaphore
    error_counts,    \* okx.py:151  the Counter of error kinds
    okx_items        \* the instruments whose item is in the returned list

\* The symbol unification of the adapters (okx_instid_to_unified of
\* okx.py:26-27, binance_symbol_to_unified of binance.py:29-39), as called
\* for every quote an adapter receives.
VARIABLES
    unify_seen,      \* observation: every call made so far, with its value
    unify_last       \* observation: the call just made

rankVars == <<rank_input, rank_rows, rank_built>>

okxVars == <<okx_pc, okx_listing, okx_now, tasks, sem, error_counts, okx_items>>

unifyVars == <<unify_seen, unify_last>>

vars == <<coordVars, rankVars, okxVars, unifyVars>>

\* The variables of every component but the coordinator.
exceptCoord == <<rankVars, okxVars, unifyVars>>

\* The variables of every component but the ranking builder.
exceptRank == <<coordVars, okxVars, unifyVars>>

\* The variables of every component but the OKX adapter.
exceptOkx == <<coordVars, rankVars, unifyVars>>

\* The variables of every component but the symbol unification.
exceptUnify == <<coordVars, rankVars, okxVars>>

\* No unification has been called.
NoCall == [source |-> "none", raw |-> <<>>, unified |-> <<>>, again |-> FALSE]

UnifyIdle == unify_seen = {} /\ unify_last = NoCall

\* The ranking builder has not been handed anything.
RankingIdle == rank_input = <<>> /\ rank_rows = <<>> /\ rank_built = FALSE

---------------------------------------------------------------------------
(* Bounds of the model *)

NumCallers == 2
MaxItems == 2
MaxTicks == 3
TickSeconds == 3
StartTime == 100

(* Program constants *)

REFRESH_INTERVAL == 30
REFRESH_TIMEOUT == 9

Callers == 1..NumCallers

Sources == <<"BINANCE", "OKX">>

SourceSet == {Sources[i] : i \in 1..Len(Sources)}

SymbolNames ==
    <<"BTC-USDT-PERP", "ETH-USDT-PERP", "SOL-USDT-PERP", "XRP-USDT-PERP">>

Symbols == {SymbolNames[i] : i \in 1..Len(SymbolNames)}

None == "None"

NoTime == 0

---------------------------------------------------------------------------
(* The OKX adapter: parameters, and its state before it is called.         *)
(* Time is counted in units of 0.5 s.  OKX_MAX_CONCURRENCY and             *)
(* OKX_TOTAL_TIMEOUT are read from the environment (okx.py:14-15); they    *)
(* are set here to 2 permits and to 3 units (1.5 s).                       *)

MaxInstruments == 3

OKX_MAX_CONCURRENCY == 2

OKX_TOTAL_TIMEOUT == 3

\* okx.py:16
OKX_RETRIES == 2

\* okx.py:17: 0.5 s, one unit of time
OKX_RETRY_BACKOFF == 1

Instruments == 1..MaxInstruments

\* The error keys a sub-task returns for a failure that is retried while
\* attempts remain (okx.py:49-55, 60-66, 110-116, 117-124 with status 500).
TransientKinds == {"http_429", "invalid_json", "timeout", "http_500"}

\* The error keys of a failure that ends the sub-task at once (okx.py:117-124
\* with status 404, okx.py:85-86, okx.py:91-92).
PermanentKinds == {"http_404", "empty", "bad_rate"}

\* The keys of the Counter error_counts.
CountedKinds == TransientKinds \cup PermanentKinds \cup {"budget_timeout"}

\* No sub-task at this index.
NoTask == [pc |-> "none", attempt |-> 0, wake |-> 0, result |-> "pending"]

\* okx.py:151: Counter()
NoErrors == [k \in CountedKinds |-> 0]

OkxIdle ==
    /\ okx_pc = "idle"
    /\ okx_listing = "none"
    /\ okx_now = 0
    /\ tasks = [t \in Instruments |-> NoTask]
    /\ sem = 0
    /\ error_counts = NoErrors
    /\ okx_items = {}

---------------------------------------------------------------------------
(* Data *)

FundingRateItem(ex, sym, rate) ==
    [exchange |-> ex, unified_symbol |-> sym, funding_rate_8h |-> rate]

\* A non-empty result of one adapter: the k-th market snapshot quotes the
\* first k instruments, all at rate k, so that the items of two different
\* results are different items.
FetchList(ex, k) ==
    [i \in 1..k |-> FundingRateItem(ex, SymbolNames[i], k)]

NonEmptyFetches(ex) == {FetchList(ex, k) : k \in 1..MaxItems}

\* What gather(..., return_exceptions=True) holds for one source.
Pending == [kind |-> "pending", items |-> <<>>]

Raised == [kind |-> "exception", items |-> <<>>]

Returned(items) == [kind |-> "returned", items |-> items]

Outcomes(ex) == {Raised, Returned(<<>>)} \cup {Returned(l) : l \in NonEmptyFetches(ex)}

RECURSIVE Concat(_, _)
Concat(f, n) == IF n = 0 THEN <<>> ELSE Concat(f, n - 1) \o f[n]

ItemsOf(items, ex) == SelectSeq(items, LAMBDA i : i.exchange = ex)

---------------------------------------------------------------------------
(* collect_all: the loop over the gathered results, aggregator.py:22-49 *)

\* Mutant of SourceContribution: an empty result is trusted ("this source
\* has nothing now") instead of falling back to the cache.
SourceContributionTrustsEmpty(result, cached) ==
    IF result.kind = "exception"
    THEN [items |-> cached, cache |-> cached]
    ELSE [items |-> result.items,
          cache |-> IF result.items = <<>> THEN cached ELSE result.items]

\* Mutant of SourceContribution: the cache entry is assigned before the
\* emptiness test, so an empty result empties the entry.
SourceContributionCachesEmpty(result, cached) ==
    IF result.kind = "exception"
    THEN [items |-> cached, cache |-> cached]
    ELSE [items |-> IF result.items = <<>> THEN cached ELSE result.items,
          cache |-> result.items]

\* Mutant of SourceContribution: the fresh items are added to the cached
\* ones instead of standing for them.
SourceContributionAddsToCached(result, cached) ==
    IF result.kind = "exception"
    THEN [items |-> cached, cache |-> cached]
    ELSE IF result.items = <<>>
         THEN [items |-> cached, cache |-> cached]
         ELSE [items |-> cached \o result.items, cache |-> result.items]

\* One iteration of the loop for one source: what it adds to items and what
\* EXCHANGE_CACHE[name] is afterwards.  An exception and an empty list both
\* fall back to the cached list; a non-empty list overwrites the cache.
SourceContribution(result, cached) ==
    IF result.kind = "exception"
    THEN [items |-> cached, cache |-> cached]
    ELSE IF result.items = <<>>
         THEN [items |-> cached, cache |-> cached]
         ELSE [items |-> result.items, cache |-> result.items]

\* The whole loop: items in the order of the exchanges list, and the new cache.
CollectAll(res, cache) ==
    LET part(i) == SourceContribution(res[Sources[i]], cache[Sources[i]])
    IN  [items |-> Concat([i \in 1..Len(Sources) |-> part(i).items], Len(Sources)),
         cache |-> [ex \in SourceSet |->
                      LET i == CHOOSE j \in 1..Len(Sources) : Sources[j] = ex
                      IN  part(i).cache]]

---------------------------------------------------------------------------
(* _refresh_cache, app.py:46-49 *)

\* str(exc) of the exception raised by "items, fetch_status = await
\* collect_all()" followed by build_ranking(items), given the list returned.
RefreshCacheError(items) ==
    IF Len(items) < 2 THEN "not enough values to unpack"
    ELSE IF Len(items) > 2 THEN "too many values to unpack"
    ELSE "'FundingRateItem' object is not iterable"

TimeoutError == "refresh_timeout_9.0s"

---------------------------------------------------------------------------
(* get_funding_ranking, app.py:90-132 *)

\* app.py:95 and app.py:105
IsFresh(timestamp, t) == timestamp # 0 /\ (t - timestamp) < REFRESH_INTERVAL

\* Mutant of Branch: the test REFRESH_LOCK.locked() of app.py:97 is missing.
BranchWithoutLockedTest(timestamp, t, locked) ==
    IF IsFresh(timestamp, t) THEN "fresh" ELSE "refresh"

\* Which branch of app.py:95-101 a call takes.
Branch(timestamp, t, locked) ==
    IF IsFresh(timestamp, t) THEN "fresh"
    ELSE IF locked THEN "busy"
    ELSE "refresh"

\* Mutant of AcquireLock: the refresh runs without taking the lock.
AcquireLockForgotten(locked) == locked

\* app.py:101: "async with REFRESH_LOCK" entered with the lock free.
AcquireLock(locked) == TRUE

\* Mutant of ReleaseLock: the lock is still held when the block is left.
ReleaseLockForgotten(locked) == locked

\* app.py:101: leaving the "async with" block.
ReleaseLock(locked) == FALSE

NoAge == -1

\* Mutant of CacheAge: the guard on the timestamp of app.py:127 is missing.
CacheAgeUnguarded(timestamp, t) == t - timestamp

\* app.py:128: the key cache_age_s is present only when the timestamp is truthy.
CacheAge(timestamp, t) == IF timestamp # 0 THEN t - timestamp ELSE NoAge

\* app.py:123-132: the dict returned; local_now is the handler's local "now".
Response(p, rows, local_now, cache, locked, t) ==
    [to |-> p,
     rows |-> rows,
     updated_at |-> IF cache.timestamp # 0 THEN cache.timestamp ELSE local_now,
     cache_age_s |-> CacheAge(cache.timestamp, t),
     refresh_in_progress |-> locked,
     last_error |-> cache.last_error,
     last_error_at |-> cache.last_error_at]

\* Mutant of RecordError: a failed refresh also stamps the snapshot, as if
\* it had been regenerated.
RecordErrorStampsSnapshot(cache, err, t) ==
    [cache EXCEPT !.last_error = err, !.last_error_at = t, !.timestamp = t]

\* Mutant of RecordError: the time of the error is not recorded.
RecordErrorWithoutTime(cache, err, t) ==
    [cache EXCEPT !.last_error = err]

\* app.py:114-116 and app.py:119-121: what a failed refresh writes.
RecordError(cache, err, t) ==
    [cache EXCEPT !.last_error = err, !.last_error_at = t]

NoResp ==
    [to |-> 0, rows |-> <<>>, updated_at |-> 0, cache_age_s |-> NoAge,
     refresh_in_progress |-> FALSE, last_error |-> None, last_error_at |-> NoTime]

AllPending == [ex \in SourceSet |-> Pending]

NoCollect == [n |-> 0, returned |-> [ex \in SourceSet |-> <<>>], items |-> <<>>]

---------------------------------------------------------------------------
Init ==
    /\ now = StartTime
    /\ CACHE = [timestamp |-> 0, rows |-> <<>>, meta |-> <<>>,
                last_error |-> None, last_error_at |-> NoTime]
    /\ HISTORY = [sym \in Symbols |-> <<>>]
    /\ EXCHANGE_CACHE = [ex \in SourceSet |-> <<>>]
    /\ REFRESH_LOCK = FALSE
    /\ pc = [p \in Callers |-> "idle"]
    /\ started = [p \in Callers |-> NoTime]
    /\ cached_rows = [p \in Callers |-> <<>>]
    /\ results = [p \in Callers |-> AllPending]
    /\ last_start = NoTime
    /\ last_collect = NoCollect
    /\ last_outcome = "none"
    /\ last_resp = NoResp
    /\ RankingIdle
    /\ OkxIdle
    /\ UnifyIdle

\* The timer of wait_for (app.py:109) of task p has expired.
Overdue(p) == pc[p] = "refreshing" /\ now - started[p] >= REFRESH_TIMEOUT

\* The clock advances (it is observed every TickSeconds seconds).  A timer that has expired fires before more time passes.
Tick ==
    /\ now < StartTime + MaxTicks * TickSeconds
    /\ \A p \in Callers : ~Overdue(p)
    /\ now' = now + TickSeconds
    /\ last_resp' = NoResp
    /\ UNCHANGED <<CACHE, HISTORY, EXCHANGE_CACHE, REFRESH_LOCK, pc, started,
                   cached_rows, results, last_start, last_collect, last_outcome>>
    /\ UNCHANGED exceptCoord

\* A request arrives and runs from app.py:92 to its first suspension (the
\* await of app.py:109) or to its return.
GetRanking(p) ==
    /\ pc[p] = "idle"
    /\ LET b == Branch(CACHE.timestamp, now, REFRESH_LOCK)
       IN  IF b = "refresh" /\ ~IsFresh(CACHE.timestamp, now)
           THEN /\ REFRESH_LOCK' = AcquireLock(REFRESH_LOCK)
                /\ pc' = [pc EXCEPT ![p] = "refreshing"]
                /\ started' = [started EXCEPT ![p] = now]
                /\ cached_rows' = [cached_rows EXCEPT ![p] = CACHE.rows]
                /\ results' = [results EXCEPT ![p] = AllPending]
                /\ last_start' = now
                /\ last_resp' = NoResp
           ELSE /\ last_resp' = Response(p, CACHE.rows, now, CACHE, REFRESH_LOCK, now)
                /\ UNCHANGED <<REFRESH_LOCK, pc, started, cached_rows, results,
                               last_start>>
    /\ UNCHANGED <<now, CACHE, HISTORY, EXCHANGE_CACHE, last_collect, last_outcome>>
    /\ UNCHANGED exceptCoord

\* One adapter coroutine of the gather of aggregator.py:20 finishes (before
\* the timer of wait_for has expired: an expired timer fires first).
SourceReturn(p, ex) ==
    /\ pc[p] = "refreshing"
    /\ ~Overdue(p)
    /\ results[p][ex] = Pending
    /\ \E r \in Outcomes(ex) :
         results' = [results EXCEPT ![p][ex] = r]
    /\ last_resp' = NoResp
    /\ UNCHANGED <<now, CACHE, HISTORY, EXCHANGE_CACHE, REFRESH_LOCK, pc, started,
                   cached_rows, last_start, last_collect, last_outcome>>
    /\ UNCHANGED exceptCoord

\* gather has every result: collect_all runs its loop and returns, the
\* unpacking of app.py:48 (or build_ranking) raises, the handler records the
\* error (app.py:117-121), leaves the lock and returns its response.
RefreshRaises(p) ==
    /\ pc[p] = "refreshing"
    /\ \A ex \in SourceSet : results[p][ex] # Pending
    /\ LET c == CollectAll(results[p], EXCHANGE_CACHE)
           cache2 == RecordError(CACHE, RefreshCacheError(c.items), now)
       IN  /\ EXCHANGE_CACHE' = c.cache
           /\ CACHE' = cache2
           /\ last_collect' = [n |-> 1,
                                returned |-> [ex \in SourceSet |-> results[p][ex].items],
                                items |-> c.items]
           /\ last_outcome' = "exception"
           /\ last_resp' = Response(p, cached_rows[p], started[p], cache2,
                                ReleaseLock(REFRESH_LOCK), now)
    /\ REFRESH_LOCK' = ReleaseLock(REFRESH_LOCK)
    /\ pc' = [pc EXCEPT ![p] = "idle"]
    /\ started' = [started EXCEPT ![p] = NoTime]
    /\ cached_rows' = [cached_rows EXCEPT ![p] = <<>>]
    /\ results' = [results EXCEPT ![p] = AllPending]
    /\ UNCHANGED <<now, HISTORY, last_start>>
    /\ UNCHANGED exceptCoord

\* wait_for's timer fires first: _refresh_cache is cancelled inside gather,
\* collect_all's loop never runs, and the handler takes app.py:110-116.
RefreshTimeout(p) ==
    /\ Overdue(p)
    /\ LET cache2 == RecordError(CACHE, TimeoutError, now)
       IN  /\ CACHE' = cache2
           /\ last_resp' = Response(p, cached_rows[p], started[p], cache2,
                                ReleaseLock(REFRESH_LOCK), now)
    /\ last_outcome' = "timeout"
    /\ REFRESH_LOCK' = ReleaseLock(REFRESH_LOCK)
    /\ pc' = [pc EXCEPT ![p] = "idle"]
    /\ started' = [started EXCEPT ![p] = NoTime]
    /\ cached_rows' = [cached_rows EXCEPT ![p] = <<>>]
    /\ results' = [results EXCEPT ![p] = AllPending]
    /\ UNCHANGED <<now, HISTORY, EXCHANGE_CACHE, last_start, last_collect>>
    /\ UNCHANGED exceptCoord

Next ==
    \/ Tick
    \/ \E p \in Callers : GetRanking(p)
    \/ \E p \in Callers : \E ex \in SourceSet : SourceReturn(p, ex)
    \/ \E p \in Callers : RefreshRaises(p)
    \/ \E p \in Callers : RefreshTimeout(p)

Spec == Init /\ [][Next]_vars

---------------------------------------------------------------------------
(* Steps of a request task, as seen on two consecutive states *)

\* Task p starts an execution of the collect_all + build_ranking pipeline.
Starts(p) == pc[p] = "idle" /\ pc'[p] = "refreshing"

\* The refresh of task p ends (by exception or by timeout) and p returns.
Ends(p) == pc[p] = "refreshing" /\ pc'[p] = "idle"

\* A request of p arrives: the step is p's run of app.py:92 onwards.
Arrives(p) == pc[p] = "idle" /\ (pc'[p] = "refreshing" \/ last_resp'.to = p)

Refreshing == {p \in Callers : pc[p] = "refreshing"}

---------------------------------------------------------------------------
(* C1: single-flight.  At every instant at most one execution of the       *)
(* pipeline is in progress; a request that arrives while one is in         *)
(* progress starts no execution; and every request that returns receives   *)
(* the rows of the current snapshot (an empty list at worst).              *)
C1_SingleFlight ==
    /\ [](Cardinality(Refreshing) <= 1)
    /\ [][\A p \in Callers :
            /\ (Arrives(p) /\ Refreshing # {}) =>
                  (pc'[p] = "idle" /\ last_start' = last_start)
            /\ (last_resp'.to = p) => (last_resp'.rows = CACHE'.rows)]_vars

\* A request has just been answered while another task's pipeline runs.
C1_Witness ==
    \E p, q \in Callers :
        p # q /\ pc[q] = "refreshing" /\ last_resp.to = p

(* C2: a request that finds the snapshot stale while the lock is held by   *)
(* another task returns in the same step, with the current rows, without   *)
(* waiting: no time passes, it is idle again, and it neither takes nor     *)
(* waits for the lock.                                                     *)
C2_BusyReturnsAtOnce ==
    [][\A p \in Callers :
         (Arrives(p) /\ REFRESH_LOCK /\ ~IsFresh(CACHE.timestamp, now)) =>
            /\ pc'[p] = "idle"
            /\ last_resp'.to = p
            /\ last_resp'.rows = CACHE.rows
            /\ last_resp'.refresh_in_progress
            /\ now' = now
            /\ UNCHANGED <<REFRESH_LOCK, CACHE, results, started>>]_vars

\* A stale-snapshot request answered while a refresh has been running for a
\* while and some source of that refresh has not finished.
C2_Witness ==
    \E p, q \in Callers :
        /\ p # q
        /\ pc[q] = "refreshing" /\ now > started[q]
        /\ \E ex \in SourceSet : results[q][ex] = Pending
        /\ last_resp.to = p /\ last_resp.refresh_in_progress

\* gather result of a source that raised or returned no item.
Failed(r) == r.kind = "exception" \/ (r.kind = "returned" /\ r.items = <<>>)

\* The refresh of p ends with collect_all having returned (not by timeout).
EndsCollected(p) == Ends(p) /\ last_outcome' = "exception"

(* C4, as claimed: a refresh whose collection completed within the refresh *)
(* timeout is a successful refresh: the snapshot carries a generation time *)
(* and the recorded error and its timestamp are cleared.                   *)
C4_CollectedRefreshReplacesSnapshot ==
    (last_collect.n = 1 /\ last_outcome # "timeout") =>
        /\ CACHE.timestamp # 0
        /\ CACHE.last_error = None
        /\ CACHE.last_error_at = NoTime

(* C5: when a refresh ends in a timeout or in an exception, the snapshot's *)
(* rows, generation time and meta are those of before, the error kind and  *)
(* the time of the error are recorded, and the caller is answered with the *)
(* previous rows.                                                          *)
C5_FailedRefreshKeepsSnapshot ==
    [][\A p \in Callers :
         (Ends(p) /\ last_outcome' \in {"timeout", "exception"}) =>
            /\ CACHE'.rows = CACHE.rows
            /\ CACHE'.timestamp = CACHE.timestamp
            /\ CACHE'.meta = CACHE.meta
            /\ HISTORY' = HISTORY
            /\ CACHE'.last_error # None
            /\ (last_outcome' = "timeout") <=> (CACHE'.last_error = TimeoutError)
            /\ CACHE'.last_error_at = now
            /\ last_resp'.to = p
            /\ last_resp'.rows = CACHE.rows
            /\ last_resp'.last_error = CACHE'.last_error]_vars

\* A refresh has just ended by timeout and its caller has been answered.
C5_Witness ==
    /\ last_outcome = "timeout"
    /\ CACHE.last_error = TimeoutError /\ CACHE.last_error_at = now
    /\ last_resp.to # 0 /\ last_resp.last_error = TimeoutError

(* C6: fallback.  In a collection cycle in which a source raised or        *)
(* returned no item, that source's share of the list collect_all returns   *)
(* is exactly its cached list: the M > 0 items it returned in the previous *)
(* cycle if it returned any then, and nothing if it has no cached item.    *)
(* A raised exception and an empty list are treated alike.                 *)
C6_FallbackToCache ==
    [][\A p \in Callers : \A ex \in SourceSet :
         (EndsCollected(p) /\ Failed(results[p][ex])) =>
            /\ ItemsOf(last_collect'.items, ex) = EXCHANGE_CACHE[ex]
            /\ (last_collect.n = 1 /\ last_collect.returned[ex] # <<>>) =>
                  ItemsOf(last_collect'.items, ex) = last_collect.returned[ex]
            /\ (EXCHANGE_CACHE[ex] = <<>>) =>
                  ItemsOf(last_collect'.items, ex) = <<>>]_vars

\* The last cycle returned cached items for a source that returned none.
C6_Witness ==
    /\ last_collect.n = 1
    /\ \E ex \in SourceSet :
         /\ last_collect.returned[ex] = <<>>
         /\ Len(ItemsOf(last_collect.items, ex)) = MaxItems

(* C7, as claimed: whenever a refresh ends, the items that a source        *)
(* returned in it are recorded as that source's cache, whatever the other  *)
(* sources did, also when another source had not finished.                 *)
C7_ReturnedItemsAlwaysKept ==
    [][\A p \in Callers : \A ex \in SourceSet :
         (Ends(p) /\ results[p][ex].kind = "returned" /\ results[p][ex].items # <<>>) =>
            EXCHANGE_CACHE'[ex] = results[p][ex].items]_vars

(* C8, as claimed: a refresh in which one source fails and another returns *)
(* items, and whose collection completes in time, leaves no error recorded *)
(* and reports none to the reader.                                         *)
C8_SourceFailureNotSurfaced ==
    [][\A p \in Callers :
         (/\ Ends(p) /\ last_outcome' # "timeout"
          /\ \E ex \in SourceSet : Failed(results[p][ex])
          /\ \E ex \in SourceSet : ~Failed(results[p][ex])) =>
            (CACHE'.last_error = None /\ last_resp'.last_error = None)]_vars

C10_StartsAtLeastIntervalApart ==
    [][\A p \in Callers :
         (Starts(p) /\ last_start # NoTime) =>
            (now - last_start >= REFRESH_INTERVAL)]_vars

(* C10, amended: a pipeline execution begins less than REFRESH_INTERVAL    *)
(* after the previous one began only when the previous one has ended in a  *)
(* timeout or an exception (its error is recorded and no task is still     *)
(* refreshing); and none begins while the snapshot is fresh.               *)
C10_EarlyStartOnlyAfterFailure ==
    [][\A p \in Callers :
         /\ (Starts(p) /\ last_start # NoTime /\ now - last_start < REFRESH_INTERVAL) =>
               /\ last_outcome \in {"timeout", "exception"}
               /\ CACHE.last_error # None
               /\ Refreshing = {}
         /\ Starts(p) => ~IsFresh(CACHE.timestamp, now)]_vars

\* A pipeline is running that began less than REFRESH_INTERVAL after the
\* previous refresh failed.
C10_Witness ==
    \E p \in Callers :
        /\ pc[p] = "refreshing"
        /\ CACHE.last_error # None
        /\ started[p] - CACHE.last_error_at < REFRESH_INTERVAL

(* C15, as claimed: a refresh cycle that ranks a symbol appends a record   *)
(* to that symbol's history.  Whenever the last completed collection       *)
(* returned a symbol quoted by two sources, the history of that symbol     *)
(* holds at least one record.                                              *)
C15_RankedSymbolHasHistory ==
    \A sym \in Symbols :
        (/\ last_collect.n = 1
         /\ \A ex \in SourceSet :
               \E i \in 1..Len(last_collect.items) :
                   /\ last_collect.items[i].exchange = ex
                   /\ last_collect.items[i].unified_symbol = sym) =>
            Len(HISTORY[sym]) >= 1

---------------------------------------------------------------------------
(* C21: frame of the per-source cache.  The entry of a source changes only *)
(* at the end of a collection cycle in which that source returned a        *)
(* non-empty list, and it becomes exactly that list; a source that raised  *)
(* or returned nothing has its entry read (it is its share of the items)   *)
(* and left as it was; no cycle changes the entry of another source.       *)
C21_SourceCacheFrame ==
    [][\A ex \in SourceSet :
         /\ (EXCHANGE_CACHE'[ex] # EXCHANGE_CACHE[ex]) =>
               \E p \in Callers :
                   /\ EndsCollected(p)
                   /\ results[p][ex].kind = "returned"
                   /\ results[p][ex].items # <<>>
                   /\ EXCHANGE_CACHE'[ex] = results[p][ex].items
         /\ \A p \in Callers :
               /\ (EndsCollected(p) /\ ~Failed(results[p][ex])) =>
                     EXCHANGE_CACHE'[ex] = results[p][ex].items
               /\ (EndsCollected(p) /\ Failed(results[p][ex])) =>
                     /\ EXCHANGE_CACHE'[ex] = EXCHANGE_CACHE[ex]
                     /\ ItemsOf(last_collect'.items, ex) = EXCHANGE_CACHE[ex]]_vars

\* The last cycle overwrote the entry of a source that returned items and
\* left alone the non-empty entry of a source that returned none.
C21_Witness ==
    /\ last_collect.n = 1
    /\ \E ex1, ex2 \in SourceSet :
         /\ ex1 # ex2
         /\ last_collect.returned[ex1] # <<>>
         /\ EXCHANGE_CACHE[ex1] = last_collect.returned[ex1]
         /\ last_collect.returned[ex2] = <<>>
         /\ EXCHANGE_CACHE[ex2] # <<>>

(* C22: when the timer of the refresh fires, the collection in flight is   *)
(* dropped and the shared state is that of before the refresh: the         *)
(* snapshot's generation time, rows and meta, every per-source cache entry *)
(* and every history are unchanged, also for a source that had already     *)
(* returned; and whatever is written to them later is written by the end   *)
(* of a collection that ran to completion, a new refresh starting with no  *)
(* result of an earlier one.                                               *)
C22_TimeoutRevertsState ==
    [][/\ \A p \in Callers :
            /\ (Ends(p) /\ last_outcome' = "timeout") =>
                  /\ CACHE'.timestamp = CACHE.timestamp
                  /\ CACHE'.rows = CACHE.rows
                  /\ CACHE'.meta = CACHE.meta
                  /\ EXCHANGE_CACHE' = EXCHANGE_CACHE
                  /\ HISTORY' = HISTORY
                  /\ results'[p] = AllPending
            /\ Starts(p) => results'[p] = AllPending
       /\ (\/ EXCHANGE_CACHE' # EXCHANGE_CACHE
           \/ HISTORY' # HISTORY
           \/ CACHE'.timestamp # CACHE.timestamp
           \/ CACHE'.rows # CACHE.rows
           \/ CACHE'.meta # CACHE.meta) =>
              \E p \in Callers : EndsCollected(p)]_vars

\* A refresh has just timed out after an earlier cycle had filled a cache
\* entry, which is still there.
C22_Witness ==
    /\ last_outcome = "timeout"
    /\ last_resp.to # 0
    /\ CACHE.last_error_at = now
    /\ last_collect.n = 1
    /\ \E ex \in SourceSet :
         /\ EXCHANGE_CACHE[ex] # <<>>
         /\ EXCHANGE_CACHE[ex] = last_collect.returned[ex]

(* C23: the snapshot, the per-source cache and the histories are written   *)
(* only by the task that holds the refresh lock: every step that changes   *)
(* one of them is the end of the refresh of the one task that is inside    *)
(* "async with REFRESH_LOCK", taken while the lock is held.                *)
C23_WritesOnlyUnderLock ==
    [][(CACHE' # CACHE \/ EXCHANGE_CACHE' # EXCHANGE_CACHE \/ HISTORY' # HISTORY) =>
          \E p \in Callers :
              /\ REFRESH_LOCK
              /\ Refreshing = {p}
              /\ Ends(p)]_vars

\* The lock holder has just written the error fields and a cache entry and
\* has left the lock.
C23_Witness ==
    /\ ~REFRESH_LOCK
    /\ last_collect.n = 1
    /\ last_resp.to # 0
    /\ CACHE.last_error \notin {None, TimeoutError}
    /\ last_resp.last_error = CACHE.last_error
    /\ \E ex \in SourceSet : EXCHANGE_CACHE[ex] # <<>>

(* C24: a refresh releases the lock when it ends, by timeout or by         *)
(* exception: the lock is held exactly while a task is refreshing, a       *)
(* refresh is over within the refresh timeout (up to the granularity of    *)
(* the clock), its end frees the lock, and a request that then arrives on  *)
(* a stale snapshot takes the lock and starts a new refresh.               *)
C24_RefreshAlwaysReleases ==
    /\ [](REFRESH_LOCK <=> Refreshing # {})
    /\ [](\A p \in Callers :
            pc[p] = "refreshing" => now - started[p] < REFRESH_TIMEOUT + TickSeconds)
    /\ [][\A p \in Callers :
            /\ Ends(p) => ~REFRESH_LOCK'
            /\ (Arrives(p) /\ ~REFRESH_LOCK /\ ~IsFresh(CACHE.timestamp, now)) =>
                  (Starts(p) /\ REFRESH_LOCK')]_vars

\* A new refresh holds the lock after the previous one ended by timeout.
C24_Witness ==
    \E p \in Callers :
        /\ pc[p] = "refreshing"
        /\ REFRESH_LOCK
        /\ last_outcome = "timeout"
        /\ CACHE.last_error = TimeoutError
        /\ started[p] >= CACHE.last_error_at

---------------------------------------------------------------------------

(* C31: the recorded error follows the last completed refresh.  In every   *)
(* state last_error is set exactly when the last refresh that ended did so *)
(* by timeout or by exception (and names a timeout exactly when it was     *)
(* one), last_error and last_error_at are both set or both unset, and a    *)
(* request that is served without running a refresh (from a fresh snapshot *)
(* or while another refresh runs) changes neither.                         *)
C31_ErrorTracksLastRefresh ==
    /\ [](/\ (CACHE.last_error # None) <=> (last_outcome \in {"timeout", "exception"})
          /\ (CACHE.last_error = TimeoutError) <=> (last_outcome = "timeout")
          /\ (CACHE.last_error # None) <=> (CACHE.last_error_at # NoTime))
    /\ [][\A p \in Callers :
            (Arrives(p) /\ ~Starts(p)) =>
                /\ CACHE'.last_error = CACHE.last_error
                /\ CACHE'.last_error_at = CACHE.last_error_at
                /\ last_resp'.last_error = CACHE.last_error
                /\ last_resp'.last_error_at = CACHE.last_error_at]_vars

\* A request has just been served while a refresh runs, and it reports the
\* error of the refresh that ended before, by exception.
C31_Witness ==
    /\ last_outcome = "exception"
    /\ CACHE.last_error \notin {None, TimeoutError}
    /\ CACHE.last_error_at # NoTime
    /\ REFRESH_LOCK
    /\ last_resp.to # 0
    /\ last_resp.refresh_in_progress
    /\ last_resp.last_error = CACHE.last_error

(* C32: a refresh that ends by timeout or by exception leaves the          *)
(* snapshot's generation time as it was, so the snapshot stays stale and a *)
(* request that arrives afterwards while no refresh runs starts a refresh  *)
(* at once, however short the time since the last one; the generation time *)
(* never decreases, and it changes only at the end of a refresh that       *)
(* ended neither by timeout nor by exception.                              *)
C32_FailureKeepsSnapshotStale ==
    [][/\ CACHE'.timestamp >= CACHE.timestamp
       /\ (CACHE'.timestamp # CACHE.timestamp) =>
             \E p \in Callers :
                 Ends(p) /\ last_outcome' \notin {"timeout", "exception"}
       /\ \A p \in Callers :
             /\ (Ends(p) /\ last_outcome' \in {"timeout", "exception"}) =>
                   /\ CACHE'.timestamp = CACHE.timestamp
                   /\ ~IsFresh(CACHE'.timestamp, now')
             /\ (/\ Arrives(p)
                 /\ last_outcome \in {"timeout", "exception"}
                 /\ ~REFRESH_LOCK) =>
                   (Starts(p) /\ started'[p] = now)]_vars

\* A refresh runs that was started at the very time the one before it
\* ended by exception.
C32_Witness ==
    \E p \in Callers :
        /\ pc[p] = "refreshing"
        /\ last_outcome = "exception"
        /\ CACHE.timestamp = 0
        /\ started[p] = CACHE.last_error_at
        /\ started[p] - StartTime < REFRESH_INTERVAL

\* The items of seq are pairwise different.
NoRepeat(seq) == \A i, j \in 1..Len(seq) : seq[i] = seq[j] => i = j

(* C33: in every collection cycle the share of a source in the list        *)
(* collect_all returns is either the non-empty list the source returned in *)
(* this cycle or its cached list, whole and once: never one followed by    *)
(* the other, never a mix, and no item of the source twice.                *)
C33_FreshOrCachedNeverBoth ==
    [][\A p \in Callers : \A ex \in SourceSet :
         EndsCollected(p) =>
            LET share == ItemsOf(last_collect'.items, ex)
                fresh == results[p][ex].items
            IN  /\ IF results[p][ex].kind = "returned" /\ fresh # <<>>
                   THEN share = fresh
                   ELSE share = EXCHANGE_CACHE[ex]
                /\ NoRepeat(share)
                /\ \A i, j \in 1..Len(share) :
                      share[i].funding_rate_8h = share[j].funding_rate_8h
                /\ Len(last_collect'.items) =
                      Len(ItemsOf(last_collect'.items, Sources[1]))
                      + Len(ItemsOf(last_collect'.items, Sources[2]))]_vars

\* The last cycle merged the fresh list of one source with the cached list
\* of the other, which is of another fetch (its items carry another rate),
\* and the fresh list stood for a cached list of that source.
C33_Witness ==
    /\ last_collect.n = 1
    /\ \E ex1, ex2 \in SourceSet :
         /\ last_collect.returned[ex1] # <<>>
         /\ ItemsOf(last_collect.items, ex1) = last_collect.returned[ex1]
         /\ last_collect.returned[ex2] = <<>>
         /\ ItemsOf(last_collect.items, ex2) # <<>>
         /\ ItemsOf(last_collect.items, ex2)[1].funding_rate_8h
               # ItemsOf(last_collect.items, ex1)[1].funding_rate_8h

---------------------------------------------------------------------------

(* build_ranking, aggregator.py:56-131.                                    *)
(*                                                                         *)
(* A rate is an integer number of rate units (build_ranking is invariant   *)
(* under the choice of unit).  A missing max_leverage (None) is 0: line    *)
(* 104 tests the leverage for truth, and None and 0.0 are both false.      *)

MaxRankItems == 4

DEFAULT_LEVERAGE == 50

BINANCE_DEFAULT_LEVERAGE == 125

\* 1 / rel_tol of math.isclose (rel_tol = 1e-09, abs_tol = 0.0).
RelTolInverse == 1000000000

Abs(x) == IF x < 0 THEN -x ELSE x

Max2(x, y) == IF x >= y THEN x ELSE y

Min2(x, y) == IF x <= y THEN x ELSE y

\* math.isclose(a, b): abs(a - b) <= rel_tol * max(abs(a), abs(b)).
IsClose(a, b) ==
    a = b \/ Abs(a - b) <= Max2(Abs(a), Abs(b)) \div RelTolInverse

RankItem(ex, sym, rate, lever) ==
    [exchange |-> ex, unified_symbol |-> sym, funding_rate_8h |-> rate,
     max_leverage |-> lever]

\* The rates of the explored inputs: three neighbouring rates, of which the
\* middle one is within the tolerance of both others and the outer two are
\* not within the tolerance of each other.
RateValues == {RelTolInverse - 1, RelTolInverse, RelTolInverse + 1}

RankSymbols == {SymbolNames[1], SymbolNames[2]}

\* max_leverage as the adapters set it: binance.py:109 gives every item
\* BINANCE_DEFAULT_LEVERAGE; okx.py:222-225 gives an item the "lever" of its
\* instrument, None when the listing has no positive lever for it (here: no
\* lever listed for the first symbol, 20 for the others).
AdapterLeverage(ex, sym) ==
    IF ex = "BINANCE" THEN BINANCE_DEFAULT_LEVERAGE
    ELSE IF sym = SymbolNames[1] THEN 0 ELSE 20

\* A rate far from RateValues, quoted by the first source for the first
\* symbol: with it a group can hold three rates no two of which are tied.
FarRate == RelTolInverse + 3

RankItems ==
    {RankItem(ex, sym, r, AdapterLeverage(ex, sym)) :
        ex \in SourceSet, sym \in RankSymbols, r \in RateValues}
    \cup {RankItem(Sources[1], SymbolNames[1], FarRate,
                    AdapterLeverage(Sources[1], SymbolNames[1]))}

\* aggregator.py:72-74: the keys of "grouped", in insertion order.
RECURSIVE GroupedSymbols(_, _)
GroupedSymbols(items, n) ==
    IF n = 0 THEN <<>>
    ELSE LET prev == GroupedSymbols(items, n - 1)
             sym == items[n].unified_symbol
         IN  IF \E i \in 1..Len(prev) : prev[i] = sym
             THEN prev ELSE Append(prev, sym)

\* aggregator.py:72-74: grouped[sym], in input order.
Grouped(items, sym) == SelectSeq(items, LAMBDA i : i.unified_symbol = sym)

\* aggregator.py:79
ExchangesPresent(symbol_items) ==
    {symbol_items[i].exchange : i \in 1..Len(symbol_items)}

\* Mutant of IsRanked: the group is kept when it has two items.
IsRankedByItemCount(symbol_items) == Len(symbol_items) >= 2

\* aggregator.py:80-82: the group is skipped unless two exchanges quote it.
IsRanked(symbol_items) == Cardinality(ExchangesPresent(symbol_items)) >= 2

\* aggregator.py:84-85
MaxRate(symbol_items) ==
    CHOOSE r \in {symbol_items[i].funding_rate_8h : i \in 1..Len(symbol_items)} :
        \A j \in 1..Len(symbol_items) : symbol_items[j].funding_rate_8h <= r

MinRate(symbol_items) ==
    CHOOSE r \in {symbol_items[i].funding_rate_8h : i \in 1..Len(symbol_items)} :
        \A j \in 1..Len(symbol_items) : symbol_items[j].funding_rate_8h >= r

\* aggregator.py:87-88
Candidates(symbol_items, rate) ==
    SelectSeq(symbol_items, LAMBDA si : IsClose(si.funding_rate_8h, rate))

\* The candidates of another exchange than ex, in order: next(...) of
\* aggregator.py:94 and 98 takes the first, None when there is none.
Alternates(candidates, ex) == SelectSeq(candidates, LAMBDA si : si.exchange # ex)

\* Mutant of ReportingPair: the first candidates are taken as they come.
ReportingPairUnresolved(symbol_items) ==
    [max_item |-> Candidates(symbol_items, MaxRate(symbol_items))[1],
     min_item |-> Candidates(symbol_items, MinRate(symbol_items))[1]]

\* Mutant of ReportingPair: the two replacements are tried in the other
\* order, the high side first.
ReportingPairPrefersHigh(symbol_items) ==
    LET max_candidates == Candidates(symbol_items, MaxRate(symbol_items))
        min_candidates == Candidates(symbol_items, MinRate(symbol_items))
        max_item == max_candidates[1]
        min_item == min_candidates[1]
        alt_min == Alternates(min_candidates, max_item.exchange)
        alt_max == Alternates(max_candidates, min_item.exchange)
    IN  IF max_item.exchange # min_item.exchange
        THEN [max_item |-> max_item, min_item |-> min_item]
        ELSE IF alt_max # <<>>
             THEN [max_item |-> alt_max[1], min_item |-> min_item]
             ELSE IF alt_min # <<>>
                  THEN [max_item |-> max_item, min_item |-> alt_min[1]]
                  ELSE [max_item |-> max_item, min_item |-> min_item]

\* aggregator.py:90-100: the pair of items a row reports.
ReportingPair(symbol_items) ==
    LET max_candidates == Candidates(symbol_items, MaxRate(symbol_items))
        min_candidates == Candidates(symbol_items, MinRate(symbol_items))
        max_item == max_candidates[1]
        min_item == min_candidates[1]
        alt_min == Alternates(min_candidates, max_item.exchange)
        alt_max == Alternates(max_candidates, min_item.exchange)
    IN  IF max_item.exchange # min_item.exchange
        THEN [max_item |-> max_item, min_item |-> min_item]
        ELSE IF alt_min # <<>>
             THEN [max_item |-> max_item, min_item |-> alt_min[1]]
             ELSE IF alt_max # <<>>
                  THEN [max_item |-> alt_max[1], min_item |-> min_item]
                  ELSE [max_item |-> max_item, min_item |-> min_item]

\* Mutant of LeverOrDefault: the leverage of the item is used as it is.
LeverAsGiven(lever) == lever

\* aggregator.py:104-105: "max_leverage or DEFAULT_LEVERAGE".
LeverOrDefault(lever) == IF lever # 0 THEN lever ELSE DEFAULT_LEVERAGE

\* Mutant of LeverageUsed: the leverage of the high side alone.
LeverageUsedOfHighSide(max_item, min_item) == LeverOrDefault(max_item.max_leverage)

\* aggregator.py:104-106
LeverageUsed(max_item, min_item) ==
    Min2(LeverOrDefault(max_item.max_leverage), LeverOrDefault(min_item.max_leverage))

\* Mutant of FundingDiffRow: the details hold only the two reported items.
FundingDiffRowPairDetails(unified_symbol, symbol_items) ==
    LET pair == ReportingPair(symbol_items)
        diff == pair.max_item.funding_rate_8h - pair.min_item.funding_rate_8h
        leverage_used == LeverageUsed(pair.max_item, pair.min_item)
    IN  [unified_symbol |-> unified_symbol,
         max_rate_exchange |-> pair.max_item.exchange,
         max_rate |-> pair.max_item.funding_rate_8h,
         min_rate_exchange |-> pair.min_item.exchange,
         min_rate |-> pair.min_item.funding_rate_8h,
         diff |-> diff,
         leverage_used |-> leverage_used,
         nominal_spread |-> diff * leverage_used,
         details |-> <<pair.max_item, pair.min_item>>]

\* aggregator.py:102-123: the row of one group.
FundingDiffRow(unified_symbol, symbol_items) ==
    LET pair == ReportingPair(symbol_items)
        diff == pair.max_item.funding_rate_8h - pair.min_item.funding_rate_8h
        leverage_used == LeverageUsed(pair.max_item, pair.min_item)
    IN  [unified_symbol |-> unified_symbol,
         max_rate_exchange |-> pair.max_item.exchange,
         max_rate |-> pair.max_item.funding_rate_8h,
         min_rate_exchange |-> pair.min_item.exchange,
         min_rate |-> pair.min_item.funding_rate_8h,
         diff |-> diff,
         leverage_used |-> leverage_used,
         nominal_spread |-> diff * leverage_used,
         details |-> symbol_items]

\* aggregator.py:76-123: the rows in the order of the groups, before the sort.
RECURSIVE UnsortedRows(_, _, _)
UnsortedRows(items, symbols, n) ==
    IF n = 0 THEN <<>>
    ELSE LET prev == UnsortedRows(items, symbols, n - 1)
             symbol_items == Grouped(items, symbols[n])
         IN  IF IsRanked(symbol_items)
             THEN Append(prev, FundingDiffRow(symbols[n], symbol_items))
             ELSE prev

\* Mutant of InsertRow: the row goes before the rows of equal key.
InsertRowBeforeTies(sorted, row) ==
    LET smaller == {i \in 1..Len(sorted) : Abs(sorted[i].diff) <= Abs(row.diff)}
        k == IF smaller = {} THEN Len(sorted) + 1
             ELSE CHOOSE i \in smaller : \A j \in smaller : i <= j
    IN  SubSeq(sorted, 1, k - 1) \o <<row>> \o SubSeq(sorted, k, Len(sorted))

\* One insertion of the stable descending sort of aggregator.py:125: the row
\* goes after every row whose key abs(diff) is greater or equal.
InsertRow(sorted, row) ==
    LET smaller == {i \in 1..Len(sorted) : Abs(sorted[i].diff) < Abs(row.diff)}
        k == IF smaller = {} THEN Len(sorted) + 1
             ELSE CHOOSE i \in smaller : \A j \in smaller : i <= j
    IN  SubSeq(sorted, 1, k - 1) \o <<row>> \o SubSeq(sorted, k, Len(sorted))

\* aggregator.py:125: rows.sort(key=lambda r: abs(r.diff), reverse=True)
RECURSIVE SortRows(_, _)
SortRows(rows, n) ==
    IF n = 0 THEN <<>> ELSE InsertRow(SortRows(rows, n - 1), rows[n])

\* build_ranking
BuildRanking(items) ==
    LET symbols == GroupedSymbols(items, Len(items))
        rows == UnsortedRows(items, symbols, Len(symbols))
    IN  SortRows(rows, Len(rows))

\* The caller has one more item in the list it will hand to build_ranking.
Collect(item) ==
    /\ Len(rank_input) < MaxRankItems
    /\ rank_input' = Append(rank_input, item)
    /\ rank_rows' = <<>>
    /\ rank_built' = FALSE
    /\ UNCHANGED exceptRank

\* main_cli.py:22 / app.py:49: build_ranking(items) is called and returns.
CallBuildRanking ==
    /\ ~rank_built
    /\ rank_rows' = BuildRanking(rank_input)
    /\ rank_built' = TRUE
    /\ UNCHANGED <<rank_input, exceptRank>>

NextRanking ==
    \/ \E item \in RankItems : Collect(item)
    \/ CallBuildRanking

SpecRanking == Init /\ [][NextRanking]_vars

---------------------------------------------------------------------------
(* What a claim about build_ranking reads from its input *)

\* The exchanges that quote sym in the input.
ObservedBy(sym) ==
    {rank_input[i].exchange :
        i \in {j \in 1..Len(rank_input) : rank_input[j].unified_symbol = sym}}

RowSet == {rank_rows[i] : i \in 1..Len(rank_rows)}

\* The items of the input that quote sym.
ItemsFor(sym) ==
    {rank_input[i] : i \in {j \in 1..Len(rank_input) : rank_input[j].unified_symbol = sym}}

\* The items of the input for sym whose rate is tied (math.isclose) with the
\* greatest, respectively the least, rate quoted for sym.
TiedAtMax(sym) ==
    {it \in ItemsFor(sym) :
        \E top \in ItemsFor(sym) :
            /\ \A o \in ItemsFor(sym) : o.funding_rate_8h <= top.funding_rate_8h
            /\ IsClose(it.funding_rate_8h, top.funding_rate_8h)}

TiedAtMin(sym) ==
    {it \in ItemsFor(sym) :
        \E bot \in ItemsFor(sym) :
            /\ \A o \in ItemsFor(sym) : o.funding_rate_8h >= bot.funding_rate_8h
            /\ IsClose(it.funding_rate_8h, bot.funding_rate_8h)}

\* Where sym is first met in the input.
FirstSeenAt(sym) ==
    CHOOSE i \in 1..Len(rank_input) :
        /\ rank_input[i].unified_symbol = sym
        /\ \A j \in 1..(i - 1) : rank_input[j].unified_symbol # sym

(* C11: ranking filter.  In the rows build_ranking returns, no row is for  *)
(* a symbol quoted by fewer than 2 distinct exchanges in the input: every  *)
(* row's symbol is quoted by at least 2 distinct exchanges.                *)
C11_RankingFilter ==
    rank_built =>
        /\ \A row \in RowSet : Cardinality(ObservedBy(row.unified_symbol)) >= 2
        /\ \A sym \in Symbols :
              Cardinality(ObservedBy(sym)) < 2 =>
                 ~ \E row \in RowSet : row.unified_symbol = sym

\* A symbol quoted twice by one exchange only is left out, next to a symbol
\* that is ranked.
C11_Witness ==
    /\ rank_built
    /\ rank_rows # <<>>
    /\ \E sym \in Symbols :
         /\ Cardinality(ItemsFor(sym)) >= 2
         /\ Cardinality(ObservedBy(sym)) = 1
         /\ \A row \in RowSet : row.unified_symbol # sym

(* C12: tie-break.  A row has the same exchange on its high and on its low *)
(* side only when every item tied at the maximum rate and every item tied  *)
(* at the minimum rate is of that exchange.  For the observations          *)
(* (A, +1), (B, +1), (C, -2) and for a group whose rates are all equal the *)
(* two sides are different exchanges.                                      *)
C12_TieBreak ==
    /\ rank_built =>
         \A row \in RowSet :
            /\ (row.max_rate_exchange = row.min_rate_exchange) =>
                  \A it \in TiedAtMax(row.unified_symbol) \cup TiedAtMin(row.unified_symbol) :
                      it.exchange = row.max_rate_exchange
            /\ (\A a, b \in ItemsFor(row.unified_symbol) :
                   a.funding_rate_8h = b.funding_rate_8h) =>
                  row.max_rate_exchange # row.min_rate_exchange
    /\ LET rows == BuildRanking(<<RankItem("BINANCE", SymbolNames[1], 1, 0),
                                  RankItem("OKX", SymbolNames[1], 1, 0),
                                  RankItem("GATE", SymbolNames[1], -2, 0)>>)
       IN  Len(rows) = 1 /\ rows[1].max_rate_exchange # rows[1].min_rate_exchange

\* A row whose two sides differ although the first candidate at the maximum
\* and the first candidate at the minimum are of the same exchange.
C12_Witness ==
    /\ rank_built
    /\ \E row \in RowSet :
         LET first == ReportingPairUnresolved(row.details)
         IN  /\ first.max_item.exchange = first.min_item.exchange
             /\ row.max_rate_exchange # row.min_rate_exchange

(* C13: in every row, diff = max_rate - min_rate, leverage_used is the     *)
(* smaller of the two sides' leverages with a missing leverage replaced by *)
(* DEFAULT_LEVERAGE, and nominal_spread = diff * leverage_used.  For       *)
(* A (rate 1, leverage 125) and B (rate 4, leverage 50) on one symbol the  *)
(* row is B high, A low, diff 3, leverage 50, nominal spread 150.          *)
C13_SpreadArithmetic ==
    /\ rank_built =>
         \A row \in RowSet :
            /\ row.diff = row.max_rate - row.min_rate
            /\ row.nominal_spread = row.diff * row.leverage_used
            /\ \E hi, lo \in ItemsFor(row.unified_symbol) :
                  /\ hi.exchange = row.max_rate_exchange
                  /\ hi.funding_rate_8h = row.max_rate
                  /\ lo.exchange = row.min_rate_exchange
                  /\ lo.funding_rate_8h = row.min_rate
                  /\ LET h == IF hi.max_leverage = 0 THEN DEFAULT_LEVERAGE
                                                      ELSE hi.max_leverage
                         l == IF lo.max_leverage = 0 THEN DEFAULT_LEVERAGE
                                                      ELSE lo.max_leverage
                     IN  /\ row.leverage_used <= h /\ row.leverage_used <= l
                         /\ row.leverage_used \in {h, l}
    /\ LET rows == BuildRanking(<<RankItem("BINANCE", SymbolNames[1], 1, 125),
                                  RankItem("OKX", SymbolNames[1], 4, 50)>>)
       IN  /\ Len(rows) = 1
           /\ rows[1].max_rate_exchange = "OKX" /\ rows[1].max_rate = 4
           /\ rows[1].min_rate_exchange = "BINANCE" /\ rows[1].min_rate = 1
           /\ rows[1].diff = 3
           /\ rows[1].leverage_used = 50
           /\ rows[1].nominal_spread = 150

\* A row between an item with leverage 125 and an item without leverage:
\* the default is used, and the spread is not zero.
C13_Witness ==
    /\ rank_built
    /\ \E row \in RowSet :
         /\ row.max_rate_exchange = "BINANCE"
         /\ row.min_rate_exchange = "OKX"
         /\ \E lo \in ItemsFor(row.unified_symbol) :
               lo.exchange = "OKX" /\ lo.max_leverage = 0
         /\ row.leverage_used = DEFAULT_LEVERAGE
         /\ row.diff # 0

(* C14: the rows are in descending order of abs(diff), and rows of equal   *)
(* abs(diff) are in the order in which their symbols are first met in the  *)
(* input.                                                                  *)
C14_SortedStable ==
    rank_built =>
        \A i, j \in 1..Len(rank_rows) :
            i < j =>
               /\ Abs(rank_rows[i].diff) >= Abs(rank_rows[j].diff)
               /\ (Abs(rank_rows[i].diff) = Abs(rank_rows[j].diff)) =>
                     FirstSeenAt(rank_rows[i].unified_symbol)
                        < FirstSeenAt(rank_rows[j].unified_symbol)

\* Two rows of equal abs(diff), one of them with a negative diff.
C14_Witness ==
    /\ rank_built
    /\ Len(rank_rows) = 2
    /\ Abs(rank_rows[1].diff) = Abs(rank_rows[2].diff)
    /\ rank_rows[1].diff # rank_rows[2].diff

---------------------------------------------------------------------------
\* The items of the input that quote sym, in input order.
ItemsSeq(sym) == SelectSeq(rank_input, LAMBDA it : it.unified_symbol = sym)

\* The first item of seq that is in the set S.
FirstOf(seq, S) ==
    seq[CHOOSE i \in 1..Len(seq) :
            seq[i] \in S /\ \A j \in 1..(i - 1) : seq[j] \notin S]

\* What a row reports of an item on one of its sides.
SideOf(it) == <<it.exchange, it.funding_rate_8h>>

(* C26: preference order of the tie-break.  When the first item tied at    *)
(* the maximum and the first item tied at the minimum are of different     *)
(* exchanges they are the two sides.  When they are of one exchange: if an *)
(* item tied at the minimum is of another exchange, the high side is kept  *)
(* and the low side is the first such item; only if there is none and an   *)
(* item tied at the maximum is of another exchange, the low side is kept   *)
(* and the high side is the first such item; if there is neither, both     *)
(* sides stay with that exchange and the row is still reported (as for a   *)
(* group of three rates no two of which are tied, the outer two quoted by  *)
(* one exchange).                                                          *)
C26_TieBreakOrder ==
    /\ rank_built =>
         \A row \in RowSet :
            LET sym == row.unified_symbol
                hi1 == FirstOf(ItemsSeq(sym), TiedAtMax(sym))
                lo1 == FirstOf(ItemsSeq(sym), TiedAtMin(sym))
                lowOthers == {it \in TiedAtMin(sym) : it.exchange # hi1.exchange}
                highOthers == {it \in TiedAtMax(sym) : it.exchange # lo1.exchange}
                high == <<row.max_rate_exchange, row.max_rate>>
                low == <<row.min_rate_exchange, row.min_rate>>
            IN  IF hi1.exchange # lo1.exchange
                THEN high = SideOf(hi1) /\ low = SideOf(lo1)
                ELSE IF lowOthers # {}
                     THEN /\ high = SideOf(hi1)
                          /\ low = SideOf(FirstOf(ItemsSeq(sym), lowOthers))
                     ELSE IF highOthers # {}
                          THEN /\ high = SideOf(FirstOf(ItemsSeq(sym), highOthers))
                               /\ low = SideOf(lo1)
                          ELSE /\ high = SideOf(hi1) /\ low = SideOf(lo1)
                               /\ row.max_rate_exchange = row.min_rate_exchange
    /\ LET rows == BuildRanking(<<RankItem("BINANCE", SymbolNames[1], 5, 0),
                                  RankItem("OKX", SymbolNames[1], 2, 0),
                                  RankItem("BINANCE", SymbolNames[1], -3, 0)>>)
       IN  /\ Len(rows) = 1
           /\ rows[1].max_rate_exchange = "BINANCE" /\ rows[1].max_rate = 5
           /\ rows[1].min_rate_exchange = "BINANCE" /\ rows[1].min_rate = -3

\* A row whose high side was replaced: the first items tied at the two
\* extremes are of one exchange, no item tied at the minimum is of another
\* exchange, and the row's high side is of another exchange.
C26_Witness ==
    /\ rank_built
    /\ \E row \in RowSet :
         LET sym == row.unified_symbol
             hi1 == FirstOf(ItemsSeq(sym), TiedAtMax(sym))
             lo1 == FirstOf(ItemsSeq(sym), TiedAtMin(sym))
         IN  /\ hi1.exchange = lo1.exchange
             /\ \A it \in TiedAtMin(sym) : it.exchange = hi1.exchange
             /\ row.max_rate_exchange # hi1.exchange
             /\ row.min_rate_exchange = lo1.exchange

\* A row reported with one exchange on both sides.
C26_SameSourceRowReached ==
    /\ rank_built
    /\ \E row \in RowSet : row.max_rate_exchange = row.min_rate_exchange

(* C27, as claimed: in every row max_rate is the greatest and min_rate the *)
(* least rate quoted for the row's symbol, up to the tolerance of a tie:   *)
(* no item of the symbol has a rate above max_rate or below min_rate, and  *)
(* diff is never negative.                                                 *)
C27_ExtremesAndNonNegativeDiff ==
    rank_built =>
        \A row \in RowSet :
            /\ \A it \in ItemsFor(row.unified_symbol) :
                  /\ it.funding_rate_8h <= row.max_rate
                  /\ it.funding_rate_8h >= row.min_rate
            /\ row.diff >= 0

(* C28: one row per ranked symbol.  Every symbol quoted by at least 2      *)
(* distinct exchanges has exactly one row, no symbol has two rows, and the *)
(* row's details are exactly the items of the input that quote the symbol, *)
(* in input order, several items of one exchange included.                 *)
C28_OneRowPerSymbolWithAllDetails ==
    rank_built =>
        /\ \A sym \in Symbols :
              Cardinality(ObservedBy(sym)) >= 2 =>
                  Cardinality({i \in 1..Len(rank_rows) :
                                  rank_rows[i].unified_symbol = sym}) = 1
        /\ \A i, j \in 1..Len(rank_rows) :
              rank_rows[i].unified_symbol = rank_rows[j].unified_symbol => i = j
        /\ \A row \in RowSet : row.details = ItemsSeq(row.unified_symbol)

\* One row for a symbol quoted three times, twice by one exchange, while
\* the other symbol of the input, quoted by one exchange only, has no row.
C28_Witness ==
    /\ rank_built
    /\ Len(rank_rows) = 1
    /\ Len(rank_rows[1].details) = 3
    /\ \E i, j \in 1..3 :
          i # j /\ rank_rows[1].details[i].exchange = rank_rows[1].details[j].exchange
    /\ \E i \in 1..Len(rank_input) :
          rank_input[i].unified_symbol # rank_rows[1].unified_symbol

---------------------------------------------------------------------------

(* C35: default leverage.  A side whose item carries no leverage, or the   *)
(* leverage 0, counts with DEFAULT_LEVERAGE (50): the leverage_used of a   *)
(* row is the smaller of the two sides' leverages so completed, it is      *)
(* positive for every input without a negative leverage, and the           *)
(* nominal_spread of a row is zero only when its diff is zero.             *)
C35_DefaultLeverageKeepsSpread ==
    /\ DEFAULT_LEVERAGE = 50
    /\ \A it \in RankItems : it.max_leverage >= 0
    /\ rank_built =>
         \A row \in RowSet :
            /\ row.leverage_used > 0
            /\ (row.nominal_spread = 0) => (row.diff = 0)
            /\ \A hi, lo \in ItemsFor(row.unified_symbol) :
                  (/\ SideOf(hi) = <<row.max_rate_exchange, row.max_rate>>
                   /\ SideOf(lo) = <<row.min_rate_exchange, row.min_rate>>
                   /\ (hi.max_leverage = 0 \/ lo.max_leverage = 0)) =>
                      row.leverage_used <= DEFAULT_LEVERAGE
    /\ LET rows == BuildRanking(<<RankItem("BINANCE", SymbolNames[1], 3, 0),
                                  RankItem("OKX", SymbolNames[1], 1, 0)>>)
       IN  /\ Len(rows) = 1
           /\ rows[1].leverage_used = 50
           /\ rows[1].nominal_spread = 100

\* Two rows: one with an item without leverage on its high side, reported
\* with the default leverage and a spread that is not zero, and one of two
\* equal rates, whose spread is zero.
C35_Witness ==
    /\ rank_built
    /\ \E r1, r2 \in RowSet :
         /\ r1.max_rate_exchange = "OKX"
         /\ \A it \in ItemsFor(r1.unified_symbol) :
               it.exchange = "OKX" => it.max_leverage = 0
         /\ r1.leverage_used = DEFAULT_LEVERAGE
         /\ r1.diff > 0 /\ r1.nominal_spread = r1.diff * DEFAULT_LEVERAGE
         /\ r2.diff = 0 /\ r2.nominal_spread = 0 /\ r2.leverage_used > 0

---------------------------------------------------------------------------

(* fetch_okx_funding and _fetch_single_instrument, exchanges/okx.py *)

\* Mutant of BackoffSeconds: the same delay before every retry.
BackoffConstant(attempt) == OKX_RETRY_BACKOFF

\* okx.py:22-23: _backoff_seconds
BackoffSeconds(attempt) == OKX_RETRY_BACKOFF * (2 ^ attempt)

\* What one GET of okx.py:47 can come to: a funding rate, or a failure.
GetOutcomes == {"ok"} \cup TransientKinds \cup PermanentKinds

\* Mutant of AfterGet: every failure is retried while attempts remain.
AfterGetRetriesAll(task, outcome, t) ==
    IF outcome = "ok"
    THEN [NoTask EXCEPT !.pc = "done", !.result = "ok"]
    ELSE IF task.attempt < OKX_RETRIES
         THEN [task EXCEPT !.pc = "sleep", !.wake = t + BackoffSeconds(task.attempt)]
         ELSE [NoTask EXCEPT !.pc = "done", !.result = outcome]

\* okx.py:49-131: the sub-task after its GET of attempt number "attempt"
\* ended with "outcome" (the permit has been given back).  A sub-task that
\* has returned keeps its result only.
AfterGet(task, outcome, t) ==
    IF outcome = "ok"
    THEN [NoTask EXCEPT !.pc = "done", !.result = "ok"]
    ELSE IF outcome \in TransientKinds /\ task.attempt < OKX_RETRIES
         THEN [task EXCEPT !.pc = "sleep", !.wake = t + BackoffSeconds(task.attempt)]
         ELSE [NoTask EXCEPT !.pc = "done", !.result = outcome]

\* Mutant of CanAcquire: the GET is not guarded by the semaphore.
CanAcquireAlways(permits) == TRUE

\* okx.py:46: "async with sem" goes on only with a free permit.
CanAcquire(permits) == permits > 0

Created == {t \in Instruments : tasks[t].pc # "none"}

Finished == {t \in Created : tasks[t].pc \in {"done", "cancelled"}}

\* The sub-requests in flight: holding a permit, inside client.get.
InFlight == {t \in Instruments : tasks[t].pc = "get"}

\* Mutant of BudgetTimeouts: the timeout is counted once for the whole wait.
BudgetTimeoutsOnce(pending) == IF pending = {} THEN 0 ELSE 1

\* okx.py:198: error_counts["budget_timeout"] += len(pending)
BudgetTimeouts(pending) == Cardinality(pending)

\* Mutant of ReleasedByCancel: a sub-task cancelled inside its GET keeps
\* its permit.
ReleasedByCancelNone(pending) == 0

\* okx.py:46-47: CancelledError leaves "async with sem" through its exit,
\* which releases: the permits given back when the sub-tasks of "pending"
\* are cancelled are those of the ones in flight.
ReleasedByCancel(pending) == Cardinality(pending \cap InFlight)

\* Mutant of CountDone: a kind of error is counted once, however many
\* sub-tasks ended with it.
CountDoneOncePerKind(counts, done) ==
    [k \in CountedKinds |->
        counts[k] + (IF \E t \in done : tasks[t].result = k THEN 1 ELSE 0)]

\* okx.py:206-215: the loop over the done tasks, added to the counts.
CountDone(counts, done) ==
    [k \in CountedKinds |->
        counts[k] + Cardinality({t \in done : tasks[t].result = k})]

\* okx.py:141-158: the adapter is called and awaits the instrument listing.
CallFetchOkx ==
    /\ okx_pc = "idle"
    /\ okx_pc' = "listing"
    /\ UNCHANGED <<okx_listing, okx_now, tasks, sem, error_counts, okx_items>>
    /\ UNCHANGED exceptOkx

\* okx.py:158-189 and 218-220: the listing raises, is no JSON, carries an
\* API error code or lists no USDT swap: the adapter returns its empty list.
ListingFails(kind) ==
    /\ okx_pc = "listing"
    /\ okx_pc' = "returned"
    /\ okx_listing' = kind
    /\ UNCHANGED <<okx_now, tasks, sem, error_counts, okx_items>>
    /\ UNCHANGED exceptOkx

\* okx.py:173-193: the listing names k instruments; the semaphore and one
\* sub-task per instrument are created and the adapter awaits asyncio.wait.
ListingSucceeds(k) ==
    /\ okx_pc = "listing"
    /\ okx_pc' = "waiting"
    /\ okx_listing' = "ok"
    /\ okx_now' = 0
    /\ sem' = Max2(1, OKX_MAX_CONCURRENCY)
    /\ tasks' = [t \in Instruments |->
                    IF t <= k THEN [NoTask EXCEPT !.pc = "acquire"] ELSE NoTask]
    /\ UNCHANGED <<error_counts, okx_items>>
    /\ UNCHANGED exceptOkx

\* The sub-tasks run while the adapter waits, and, never cancelled by
\* anyone, also after the adapter itself was cancelled by its caller.
SubTasksRun == okx_pc \in {"waiting", "cancelled"}

\* okx.py:46-47: sub-task t enters "async with sem" and sends its GET.
Acquire(t) ==
    /\ SubTasksRun
    /\ tasks[t].pc = "acquire"
    /\ CanAcquire(sem)
    /\ sem' = sem - 1
    /\ tasks' = [tasks EXCEPT ![t].pc = "get"]
    /\ UNCHANGED <<okx_pc, okx_listing, okx_now, error_counts, okx_items>>
    /\ UNCHANGED exceptOkx

\* okx.py:47-131: the GET of t ends; t leaves "async with sem" and returns,
\* or starts the sleep before its next attempt.
Respond(t, outcome) ==
    /\ SubTasksRun
    /\ tasks[t].pc = "get"
    /\ sem' = sem + 1
    /\ tasks' = [tasks EXCEPT ![t] = AfterGet(tasks[t], outcome, okx_now)]
    /\ UNCHANGED <<okx_pc, okx_listing, okx_now, error_counts, okx_items>>
    /\ UNCHANGED exceptOkx

\* okx.py:53-54 (and 64, 80, 114, 122, 129): the sleep of t is over and the
\* loop goes to the next attempt.
Wake(t) ==
    /\ SubTasksRun
    /\ tasks[t].pc = "sleep"
    /\ okx_now >= tasks[t].wake
    /\ tasks' = [tasks EXCEPT ![t].pc = "acquire", ![t].attempt = @ + 1,
                               ![t].wake = 0]
    /\ UNCHANGED <<okx_pc, okx_listing, okx_now, sem, error_counts, okx_items>>
    /\ UNCHANGED exceptOkx

\* Time passes while sub-tasks are unfinished.  A sleep that is over and a
\* wait that has reached its timeout act before more time passes.
OkxTick ==
    /\ SubTasksRun
    /\ Finished # Created
    /\ okx_now < OKX_TOTAL_TIMEOUT
    /\ \A t \in Created : tasks[t].pc = "sleep" => okx_now < tasks[t].wake
    /\ okx_now' = okx_now + 1
    /\ UNCHANGED <<okx_pc, okx_listing, tasks, sem, error_counts, okx_items>>
    /\ UNCHANGED exceptOkx

\* okx.py:193-240: every sub-task is done before the timeout; their results
\* are counted and collected and the adapter returns.
WaitCompletes ==
    /\ okx_pc = "waiting"
    /\ Finished = Created
    /\ okx_pc' = "returned"
    /\ error_counts' = CountDone(error_counts, Created)
    /\ okx_items' = {t \in Created : tasks[t].result = "ok"}
    /\ UNCHANGED <<okx_listing, okx_now, tasks, sem>>
    /\ UNCHANGED exceptOkx

\* okx.py:193-240: the wait times out with sub-tasks pending; they are
\* cancelled (a cancelled sub-task inside "async with sem" gives its permit
\* back) and awaited, counted as budget_timeout, and the results of the
\* done ones are counted and collected.
WaitTimesOut ==
    /\ okx_pc = "waiting"
    /\ okx_now >= OKX_TOTAL_TIMEOUT
    /\ Finished # Created
    /\ LET pending == Created \ Finished
           done == Finished
       IN  /\ tasks' = [t \in Instruments |->
                          IF t \in pending
                          THEN [NoTask EXCEPT !.pc = "cancelled"]
                          ELSE tasks[t]]
           /\ sem' = sem + ReleasedByCancel(pending)
           /\ error_counts' =
                 CountDone([error_counts EXCEPT
                               !["budget_timeout"] = @ + BudgetTimeouts(pending)],
                           done)
           /\ okx_items' = {t \in done : tasks[t].result = "ok"}
    /\ okx_pc' = "returned"
    /\ UNCHANGED <<okx_listing, okx_now>>
    /\ UNCHANGED exceptOkx

\* okx.py:216-217: the caller cancels the adapter (wait_for of app.py:109
\* cancels the gather of aggregator.py:20) while it awaits the listing or
\* the wait; CancelledError goes through, the sub-tasks are left running.
FetchCancelled ==
    /\ okx_pc \in {"listing", "waiting"}
    /\ okx_pc' = "cancelled"
    /\ UNCHANGED <<okx_listing, okx_now, tasks, sem, error_counts, okx_items>>
    /\ UNCHANGED exceptOkx

ListingFailures == {"exception", "invalid_json", "api_error", "no_instruments"}

NextOkx ==
    \/ CallFetchOkx
    \/ \E kind \in ListingFailures : ListingFails(kind)
    \/ \E k \in Instruments : ListingSucceeds(k)
    \/ \E t \in Instruments : Acquire(t)
    \/ \E t \in Instruments : \E outcome \in GetOutcomes : Respond(t, outcome)
    \/ \E t \in Instruments : Wake(t)
    \/ OkxTick
    \/ WaitCompletes
    \/ WaitTimesOut
    \/ FetchCancelled

SpecOkx == Init /\ [][NextOkx]_vars

---------------------------------------------------------------------------
(* C16: concurrency cap.  In every state, also after retries, after the    *)
(* cancellation of the pending sub-tasks at the timeout and after the      *)
(* cancellation of the adapter by its caller, the number of sub-requests   *)
(* in flight (inside client.get, holding a permit) is at most              *)
(* OKX_MAX_CONCURRENCY.                                                    *)
C16_InFlightAtMostLimit == Cardinality(InFlight) <= OKX_MAX_CONCURRENCY

\* As many sub-requests in flight as there are permits, while a sub-task
\* that is retrying waits for a permit.
C16_Witness ==
    /\ Cardinality(InFlight) = OKX_MAX_CONCURRENCY
    /\ sem = 0
    /\ \E t \in Instruments : tasks[t].pc = "acquire" /\ tasks[t].attempt > 0

(* C17: retry.  A sub-task makes at most OKX_RETRIES + 1 attempts.  A GET  *)
(* that fails transiently (rate limit, malformed body, timeout, 5xx) is    *)
(* followed, while attempts remain, by a sleep of                          *)
(* OKX_RETRY_BACKOFF * 2^attempt and then by the next attempt; when it is  *)
(* the last attempt the sub-task ends with that error kind, and its        *)
(* instrument is not among the returned items.                             *)
C17_BoundedRetry ==
    /\ [](\A t \in Instruments :
            /\ tasks[t].attempt <= OKX_RETRIES
            /\ (t \in okx_items) => (tasks[t].result = "ok"))
    /\ [][\A t \in Instruments :
            /\ (tasks[t].pc = "get" /\ tasks'[t].pc = "sleep") =>
                  /\ tasks[t].attempt < OKX_RETRIES
                  /\ tasks'[t].wake - okx_now = OKX_RETRY_BACKOFF * (2 ^ tasks[t].attempt)
            /\ (tasks[t].pc = "sleep" /\ tasks'[t].pc = "acquire") =>
                  /\ okx_now >= tasks[t].wake
                  /\ tasks'[t].attempt = tasks[t].attempt + 1
            /\ (tasks[t].pc = "get" /\ tasks'[t].pc = "done"
                  /\ tasks'[t].result \in TransientKinds) =>
                  tasks[t].attempt = OKX_RETRIES]_vars

\* The adapter has returned with a sub-task that used up its attempts: its
\* transient error is counted, it gave no item, and the two sleeps took
\* OKX_RETRY_BACKOFF * (1 + 2).
C17_Witness ==
    /\ okx_pc = "returned"
    /\ \E t \in Instruments :
         /\ tasks[t].pc = "done"
         /\ tasks[t].result \in TransientKinds
         /\ error_counts[tasks[t].result] = 1
         /\ t \notin okx_items
    /\ okx_now >= OKX_RETRY_BACKOFF * ((2 ^ OKX_RETRIES) - 1)

(* C18: deadline.  When asyncio.wait times out, OKX_TOTAL_TIMEOUT after it *)
(* began, with sub-tasks pending, every pending sub-task is cancelled (and *)
(* none before), budget_timeout is counted once per cancelled sub-task,    *)
(* no cancelled sub-task has an item in the returned list, and every       *)
(* sub-task that had returned an item before has it in the returned list.  *)
C18_DeadlineCancelsPending ==
    [][/\ (okx_pc = "waiting" /\ okx_pc' = "returned" /\ Finished # Created) =>
             /\ okx_now >= OKX_TOTAL_TIMEOUT
             /\ \A t \in Created \ Finished : tasks'[t].pc = "cancelled"
             /\ error_counts'["budget_timeout"] = Cardinality(Created \ Finished)
             /\ okx_items' \cap (Created \ Finished) = {}
             /\ \A t \in Finished : (tasks[t].result = "ok") => (t \in okx_items')
             /\ InFlight' = {}
       /\ \A t \in Instruments :
             (tasks[t].pc # "cancelled" /\ tasks'[t].pc = "cancelled") =>
                 okx_now >= OKX_TOTAL_TIMEOUT]_vars

\* The adapter has returned after the timeout: two sub-tasks were cancelled
\* and counted, and the one that had succeeded is in the list.
C18_Witness ==
    /\ okx_pc = "returned"
    /\ Cardinality({t \in Instruments : tasks[t].pc = "cancelled"}) = 2
    /\ error_counts["budget_timeout"] = 2
    /\ okx_items # {}

(* C19, as claimed: every failure is captured in the error-kind counts.    *)
(* When the adapter has returned after a failed instrument listing, some   *)
(* error kind has a count.                                                 *)
C19_ListingFailureCounted ==
    (okx_pc = "returned" /\ okx_listing \in ListingFailures) =>
        \E k \in CountedKinds : error_counts[k] > 0

---------------------------------------------------------------------------
(* C29: a sub-request whose GET fails for good (a 4xx status other than    *)
(* 429, an empty data payload, a rate that is no number) ends at once,     *)
(* at any attempt: the sub-task is done with that error kind, it starts no *)
(* sleep and no further attempt, and its instrument is never among the     *)
(* returned items.                                                         *)
C29_PermanentFailureEndsAtOnce ==
    /\ [](\A t \in Instruments :
            /\ (tasks[t].pc = "get") =>
                  \A kind \in PermanentKinds :
                      LET after == AfterGet(tasks[t], kind, okx_now)
                      IN  /\ after.pc = "done"
                          /\ after.result = kind
                          /\ after.wake = 0
            /\ (tasks[t].result \in PermanentKinds) =>
                  /\ tasks[t].pc = "done"
                  /\ t \notin okx_items)
    /\ [][\A t \in Instruments :
            /\ (tasks[t].pc = "get" /\ tasks'[t].pc \in {"sleep", "done"}) =>
                  \E outcome \in GetOutcomes :
                      tasks'[t] = AfterGet(tasks[t], outcome, okx_now)
            /\ (tasks[t].pc = "get" /\ tasks'[t].pc = "sleep") =>
                  \A kind \in PermanentKinds :
                      tasks'[t] # AfterGet(tasks[t], kind, okx_now)
            /\ (tasks[t].pc = "done") => (tasks'[t] = tasks[t])]_vars

\* The adapter has returned before any time has passed, so that no sub-task
\* has slept: one sub-task ended on its first GET with a permanent error,
\* which is counted, and gave no item.
C29_Witness ==
    /\ okx_pc = "returned"
    /\ okx_now = 0
    /\ \E t \in Instruments :
         /\ tasks[t].pc = "done"
         /\ tasks[t].result \in PermanentKinds
         /\ error_counts[tasks[t].result] >= 1
         /\ t \notin okx_items

(* C30: the cancellation at the timeout leaks no permit and leaves the     *)
(* counts right.  When the adapter has returned from a wait, timed out or  *)
(* not, every permit of the semaphore is free again, budget_timeout counts *)
(* exactly the cancelled sub-tasks, every other kind counts exactly the    *)
(* sub-tasks that ended with it, and the step of the cancellation adds     *)
(* nothing else to the counts.                                             *)
C30_CancellationLeaksNothing ==
    /\ []((okx_pc = "returned" /\ okx_listing = "ok") =>
            /\ sem = Max2(1, OKX_MAX_CONCURRENCY)
            /\ InFlight = {}
            /\ error_counts["budget_timeout"] =
                  Cardinality({t \in Instruments : tasks[t].pc = "cancelled"})
            /\ \A kind \in CountedKinds \ {"budget_timeout"} :
                  error_counts[kind] =
                      Cardinality({t \in Instruments : tasks[t].result = kind}))
    /\ [][(okx_pc = "waiting" /\ okx_pc' = "returned") =>
            /\ sem' = sem + Cardinality((Created \ Finished) \cap InFlight)
            /\ \A t \in Finished : tasks'[t] = tasks[t]
            /\ \A kind \in CountedKinds \ {"budget_timeout"} :
                  error_counts'[kind] =
                      Cardinality({t \in Finished : tasks[t].result = kind})]_vars

\* The adapter has returned after the timeout with every permit free: a
\* sub-task was cancelled, and another had ended with an error, which is
\* counted once.
C30_Witness ==
    /\ okx_pc = "returned"
    /\ sem = Max2(1, OKX_MAX_CONCURRENCY)
    /\ error_counts["budget_timeout"] >= 1
    /\ \E t \in Instruments : tasks[t].pc = "cancelled"
    /\ \E t \in Instruments :
         /\ tasks[t].pc = "done"
         /\ tasks[t].result \in CountedKinds
         /\ error_counts[tasks[t].result] = 1

---------------------------------------------------------------------------

\* The sum of the counts of the kinds of S.
RECURSIVE SumCounts(_, _)
SumCounts(counts, S) ==
    IF S = {} THEN 0
    ELSE LET k == CHOOSE x \in S : TRUE
         IN  counts[k] + SumCounts(counts, S \ {k})

(* C34: accounting of the sub-requests.  When the adapter has returned     *)
(* after starting K sub-tasks, every sub-task is accounted for once: it    *)
(* gave its item and no error, or it gave no item and one count (of its    *)
(* own error kind if it ended with one, of budget_timeout if it was        *)
(* cancelled); the number of items plus the sum of the counts is K.        *)
C34_EverySubRequestAccountedOnce ==
    (okx_pc = "returned" /\ okx_listing = "ok") =>
        /\ \A t \in Created :
              \/ /\ tasks[t].pc = "done" /\ tasks[t].result = "ok"
                 /\ t \in okx_items
              \/ /\ tasks[t].pc = "done"
                 /\ tasks[t].result \in CountedKinds \ {"budget_timeout"}
                 /\ t \notin okx_items
              \/ /\ tasks[t].pc = "cancelled" /\ tasks[t].result = "pending"
                 /\ t \notin okx_items
        /\ okx_items \subseteq Created
        /\ \A kind \in CountedKinds \ {"budget_timeout"} :
              error_counts[kind] = Cardinality({t \in Created : tasks[t].result = kind})
        /\ error_counts["budget_timeout"] =
              Cardinality({t \in Created : tasks[t].pc = "cancelled"})
        /\ Cardinality(okx_items) + SumCounts(error_counts, CountedKinds)
              = Cardinality(Created)

\* The adapter has returned with one item and two sub-tasks that ended
\* with the same kind of error; every other sub-task has its one count.
C34_Witness ==
    /\ okx_pc = "returned"
    /\ Cardinality(Created) >= 3
    /\ Cardinality(okx_items) = 1
    /\ \E kind \in CountedKinds \ {"budget_timeout"} : error_counts[kind] = 2
    /\ SumCounts(error_counts, CountedKinds) = Cardinality(Created) - 1

---------------------------------------------------------------------------

(* Symbol unification: okx.py:26-27 and binance.py:29-39.                  *)
(*                                                                         *)
(* A symbol is the sequence of its parts: "BTC-USDT-SWAP" is               *)
(* <<"BTC", "-", "USDT", "-", "SWAP">> and "BTCUSDT" is <<"BTC", "USDT">>. *)

\* Python's None, as returned by binance_symbol_to_unified.
NoSymbol == <<"None">>

BINANCE_QUOTE == "USDT"

\* Instrument ids as OKX lists them, one of them with a base called SWAP and
\* one that is no swap.
OkxRawSymbols ==
    {<<"BTC", "-", "USDT", "-", "SWAP">>,
     <<"ETH", "-", "USD", "-", "SWAP">>,
     <<"SWAP", "-", "USDT", "-", "SWAP">>,
     <<"BTC", "-", "USDT">>}

\* Symbols as Binance lists them, one of them the bare quote and one that
\* is not quoted in USDT.
BinanceRawSymbols ==
    {<<"BTC", "USDT">>, <<"ETH", "USDT">>, <<"USDT">>, <<"BTC", "USD">>}

\* Mutant of okx_instid_to_unified: the value of the preceding call is given
\* again (a result kept in a slot that is not keyed by the symbol).
okx_instid_to_unified_stale(inst_id) ==
    IF unify_last.source = "OKX" THEN unify_last.unified
    ELSE [i \in 1..Len(inst_id) |->
            IF inst_id[i] = "SWAP" /\ i > 1 /\ inst_id[i - 1] = "-"
            THEN "PERP" ELSE inst_id[i]]

\* okx.py:26-27: inst_id.replace("-SWAP", "-PERP"), every occurrence.
okx_instid_to_unified(inst_id) ==
    [i \in 1..Len(inst_id) |->
        IF inst_id[i] = "SWAP" /\ i > 1 /\ inst_id[i - 1] = "-"
        THEN "PERP" ELSE inst_id[i]]

\* binance.py:29-39
binance_symbol_to_unified(symbol) ==
    IF symbol[Len(symbol)] # BINANCE_QUOTE THEN NoSymbol
    ELSE LET base == SubSeq(symbol, 1, Len(symbol) - 1)
         IN  IF base = <<>> THEN NoSymbol
             ELSE base \o <<"-", "USDT", "-", "PERP">>

\* What the adapter of "source" computes for the raw symbol.
Unified(source, raw) ==
    IF source = "OKX" THEN okx_instid_to_unified(raw)
    ELSE binance_symbol_to_unified(raw)

RawSymbols(source) ==
    IF source = "OKX" THEN OkxRawSymbols ELSE BinanceRawSymbols

\* okx.py:95 / binance.py:91: an adapter unifies the symbol of a quote.
Unify(source, raw) ==
    /\ unify_last' = [source |-> source, raw |-> raw,
                      unified |-> Unified(source, raw),
                      again |-> \E c \in unify_seen :
                                    c.source = source /\ c.raw = raw]
    /\ unify_seen' = unify_seen \cup
                        {[source |-> source, raw |-> raw,
                          unified |-> Unified(source, raw)]}
    /\ UNCHANGED exceptUnify

NextUnify == \E source \in SourceSet : \E raw \in RawSymbols(source) : Unify(source, raw)

SpecUnify == Init /\ [][NextUnify]_vars

===========================================================================
